---------------------------- MODULE Spec2Model ----------------------------
(***************************************************************************)
(* A top-to-bottom run of snr_table.ipynb (cells 2, 3 and 4; cell 1 only   *)
(* imports names).  The castor_etc library is external: every call into    *)
(* it is a call step followed by a return step or by a raise, its effect   *)
(* on the objects the notebook holds is what the call site hands it, and   *)
(* its numeric results are symbolic terms over the inputs of the call.     *)
(* Magnitudes are counted in tenths (22.0 is 220), the reddening in        *)
(* hundredths (0.09 is 9).                                                 *)
(***************************************************************************)
EXTENDS Integers, Sequences, FiniteSets, TLC

\* ------------------------------------------------------------------------
\* Python values
\* ------------------------------------------------------------------------

\* Python's None
None == [none |-> TRUE]

\* A name that is not bound yet, or a reference to no object
Null == 0

\* ------------------------------------------------------------------------
\* Parameters of cell 3
\* ------------------------------------------------------------------------

TARGET_SNRS == <<5, 10>>

\* np.arange(22, 29, 0.1): start, stop and the step 0.1 as the fraction 1/10
AB_MAG_START == 22
AB_MAG_STOP == 29
AB_MAG_STEP_NUM == 1
AB_MAG_STEP_DEN == 10

\* REDDENING = 0.09, in hundredths
REDDENING == 9

\* wavelengths = np.arange(90, 1200) * u.nm, kept as a term
wavelengths == [start |-> 90, stop |-> 1200, unit |-> "nm"]

\* The passbands of the default Telescope, in the order the library's result
\* dictionaries list them (the column order of the displayed tables)
PASSBANDS == <<"uv", "u", "g">>

\* ceil(n / d) for n >= 0, d > 0
CeilDiv(n, d) == (n + d - 1) \div d

\* A range that includes its stop value
np_arange_inclusive(start, stop, num, den) ==
    [i \in 1..((stop - start) * den) \div num + 1 |-> start * den + (i - 1) * num]

\* np.arange(start, stop, num/den): ceil((stop - start) / step) values
\* start + i * step, here in units of 1/den
np_arange(start, stop, num, den) ==
    [i \in 1..CeilDiv((stop - start) * den, num) |-> start * den + (i - 1) * num]

AB_MAGS == np_arange(AB_MAG_START, AB_MAG_STOP, AB_MAG_STEP_NUM, AB_MAG_STEP_DEN)

\* ------------------------------------------------------------------------
\* Sequences and dictionaries
\* ------------------------------------------------------------------------

Range(s) == {s[i] : i \in DOMAIN s}

\* A Python dict: its keys in insertion order and its values
EmptyDict == [keys |-> <<>>, val |-> <<>>]

\* d[k] = v: an existing key keeps its place, a new key is appended
DictSetItem(d, k, v) ==
    IF k \in Range(d.keys)
    THEN [d EXCEPT !.val = [@ EXCEPT ![k] = v]]
    ELSE [keys |-> Append(d.keys, k),
          val |-> [x \in Range(d.keys) \cup {k} |-> IF x = k THEN v ELSE d.val[x]]]

\* The first occurrence of every element of ks, in order
FirstOccurrences(ks) ==
    LET first == {i \in DOMAIN ks : \A j \in 1..(i - 1) : ks[j] # ks[i]}
    IN [n \in 1..Cardinality(first) |->
          ks[CHOOSE i \in first : Cardinality({j \in first : j < i}) = n - 1]]

\* The dictionary built by storing f[k] under k for every k of ks in turn
DictFromSeq(ks, f) ==
    [keys |-> FirstOccurrences(ks), val |-> [k \in Range(ks) |-> f[k]]]

\* dict.fromkeys(ks): every key of ks mapped to None
dict_fromkeys(ks) == DictFromSeq(ks, [k \in Range(ks) |-> None])

\* d.copy(): a new dictionary object with the same keys and values
dict_copy(d) == [keys |-> d.keys, val |-> d.val]

\* ------------------------------------------------------------------------
\* State
\* ------------------------------------------------------------------------

VARIABLES
    pc,                   \* the statement the run is at
    callStack,            \* library calls in progress
    trace,                \* every library call made so far, in order
    heap,                 \* the objects created so far; a reference is an index
    MyTelescope,          \* notebook names bound to object references
    MyBackground,
    MySource,
    MyPhot,
    times_to_one_snr,     \* reference to the template dictionary
    times_to_reach_snrs,  \* dict: target S/N -> reference to its dictionary
    magIt,                \* position of the iterator of "for ab_mag in AB_MAGS"
    snrIt,                \* position of the iterator of "for snr in TARGET_SNRS"
    dispIt,               \* position of the iterator of the display loop
    ab_mag,               \* loop variables
    snr,
    stores,               \* every item assignment into a result dictionary
    output,               \* the outputs of cell 4, in order
    raised                \* the call site whose exception ended the run

vars == <<pc, callStack, trace, heap, MyTelescope, MyBackground, MySource,
          MyPhot, times_to_one_snr, times_to_reach_snrs, magIt, snrIt, dispIt,
          ab_mag, snr, stores, output, raised>>

names == <<MyTelescope, MyBackground, MySource, MyPhot>>
tables == <<times_to_one_snr, times_to_reach_snrs>>
loops == <<magIt, snrIt, dispIt, ab_mag, snr>>

Init ==
    /\ pc = "Telescope"
    /\ callStack = <<>>
    /\ trace = <<>>
    /\ heap = <<>>
    /\ MyTelescope = Null
    /\ MyBackground = Null
    /\ MySource = Null
    /\ MyPhot = Null
    /\ times_to_one_snr = Null
    /\ times_to_reach_snrs = EmptyDict
    /\ magIt = 0
    /\ snrIt = 0
    /\ dispIt = 0
    /\ ab_mag = Null
    /\ snr = Null
    /\ stores = <<>>
    /\ output = <<>>
    /\ raised = "none"

\* ------------------------------------------------------------------------
\* Calls into the library
\* ------------------------------------------------------------------------

Frame(site, self, args) == [site |-> site, self |-> self, args |-> args]

\* A call that is started without waiting for the calls in progress
InvokeNoWait(site, self, args) ==
    /\ pc = site
    /\ callStack' = Append(callStack, Frame(site, self, args))
    /\ trace' = Append(trace, Frame(site, self, args))
    /\ pc' = pc

\* The statement at pc calls the library: the call starts only when no
\* other call is in progress, and the statement waits for it
Invoke(site, self, args) ==
    /\ pc = site
    /\ callStack = <<>>
    /\ callStack' = <<Frame(site, self, args)>>
    /\ trace' = Append(trace, Frame(site, self, args))
    /\ pc' = pc

\* A statement order without the use_optimal_aperture call
AfterNoAperture(site) ==
    CASE site = "Telescope" -> "Background"
      [] site = "Background" -> "add_geocoronal_emission"
      [] site = "add_geocoronal_emission" -> "setup"
      [] site = "PointSource" -> "generate_uniform"
      [] site = "generate_uniform" -> "Photometry"
      [] site = "Photometry" -> "for_snr"
      [] site = "use_optimal_aperture" -> "for_snr"
      [] site = "calc_snr_or_t" -> "for_snr"
      [] site = "print" -> "display"
      [] site = "display" -> "for_snr_display"

\* A statement order that builds the Photometry object before the spectrum
\* of its source is generated
AfterPhotometryFirst(site) ==
    CASE site = "Telescope" -> "Background"
      [] site = "Background" -> "add_geocoronal_emission"
      [] site = "add_geocoronal_emission" -> "setup"
      [] site = "PointSource" -> "Photometry"
      [] site = "Photometry" -> "generate_uniform"
      [] site = "generate_uniform" -> "use_optimal_aperture"
      [] site = "use_optimal_aperture" -> "for_snr"
      [] site = "calc_snr_or_t" -> "for_snr"
      [] site = "print" -> "display"
      [] site = "display" -> "for_snr_display"

\* The statement that follows the call statement of a site in its cell
After(site) ==
    CASE site = "Telescope" -> "Background"
      [] site = "Background" -> "add_geocoronal_emission"
      [] site = "add_geocoronal_emission" -> "setup"
      [] site = "PointSource" -> "generate_uniform"
      [] site = "generate_uniform" -> "Photometry"
      [] site = "Photometry" -> "use_optimal_aperture"
      [] site = "use_optimal_aperture" -> "for_snr"
      [] site = "calc_snr_or_t" -> "for_snr"
      [] site = "print" -> "display"
      [] site = "display" -> "for_snr_display"

\* The call of the statement at pc returns and the run goes on to the
\* statement after it
Returns(site) ==
    /\ pc = site
    /\ callStack # <<>>
    /\ callStack[Len(callStack)].site = site
    /\ callStack' = SubSeq(callStack, 1, Len(callStack) - 1)
    /\ pc' = After(site)
    /\ UNCHANGED trace

\* An exception of calc_snr_or_t that is caught and skipped
OnExceptionSkip(site) == IF site = "calc_snr_or_t" THEN "for_snr" ELSE "error"

\* An exception that is caught and the call tried again
OnExceptionRetry(site) == site

\* Where an exception raised by the call of a statement takes the run: no
\* statement of the notebook catches it, so the run ends
OnException(site) == "error"

\* The call in progress raises
Raise ==
    /\ callStack # <<>>
    /\ pc' = OnException(callStack[Len(callStack)].site)
    /\ raised' = callStack[Len(callStack)].site
    /\ callStack' = <<>>
    /\ UNCHANGED <<trace, heap, names, tables, loops, stores, output>>

\* ------------------------------------------------------------------------
\* Cell 2
\* ------------------------------------------------------------------------

\* MyTelescope = Telescope()
CallTelescope ==
    /\ Invoke("Telescope", Null, <<>>)
    /\ UNCHANGED <<heap, names, tables, loops, stores, output, raised>>

RetTelescope ==
    /\ Returns("Telescope")
    /\ heap' = Append(heap, [cls |-> "Telescope"])
    /\ MyTelescope' = Len(heap) + 1
    /\ UNCHANGED <<MyBackground, MySource, MyPhot, tables, loops, stores,
                   output, raised>>

\* MyBackground = Background()
CallBackground ==
    /\ Invoke("Background", Null, <<>>)
    /\ UNCHANGED <<heap, names, tables, loops, stores, output, raised>>

RetBackground ==
    /\ Returns("Background")
    /\ heap' = Append(heap, [cls |-> "Background", geocoronal |-> <<>>])
    /\ MyBackground' = Len(heap) + 1
    /\ UNCHANGED <<MyTelescope, MySource, MyPhot, tables, loops, stores,
                   output, raised>>

\* MyBackground.add_geocoronal_emission("avg")
CallAddGeocoronalEmission ==
    /\ Invoke("add_geocoronal_emission", MyBackground, <<"avg">>)
    /\ UNCHANGED <<heap, names, tables, loops, stores, output, raised>>

RetAddGeocoronalEmission ==
    /\ Returns("add_geocoronal_emission")
    /\ LET f == callStack[Len(callStack)]
       IN heap' = [heap EXCEPT ![f.self].geocoronal = Append(@, f.args[1])]
    /\ UNCHANGED <<names, tables, loops, stores, output, raised>>

\* ------------------------------------------------------------------------
\* Cell 3: parameters and result dictionaries
\* ------------------------------------------------------------------------

\* The template itself stored for every target S/N, without a copy
SnrDictRefAlias(templateRef, freshRef) == templateRef

\* The value the comprehension stores for one target S/N:
\* times_to_one_snr.copy() is a new object, not the template itself
SnrDictRef(templateRef, freshRef) == freshRef

\* Position of the last occurrence of k in ks
LastIndex(ks, k) ==
    CHOOSE i \in DOMAIN ks : ks[i] = k /\ \A j \in DOMAIN ks : ks[j] = k => j <= i

\* times_to_one_snr = dict.fromkeys(AB_MAGS)
\* times_to_reach_snrs = {snr: times_to_one_snr.copy() for snr in TARGET_SNRS}
SetupTables ==
    /\ pc = "setup"
    /\ callStack = <<>>
    /\ LET tmpl == Len(heap) + 1
           ValueFor == [k \in Range(TARGET_SNRS) |->
                          SnrDictRef(tmpl, tmpl + LastIndex(TARGET_SNRS, k))]
       IN /\ heap' = heap
                       \o <<[cls |-> "dict", d |-> dict_fromkeys(AB_MAGS)]>>
                       \o [i \in DOMAIN TARGET_SNRS |->
                             [cls |-> "dict",
                              d |-> dict_copy(dict_fromkeys(AB_MAGS))]]
          /\ times_to_one_snr' = tmpl
          /\ times_to_reach_snrs' = DictFromSeq(TARGET_SNRS, ValueFor)
    /\ magIt' = 0
    /\ pc' = "for_ab_mag"
    /\ UNCHANGED <<callStack, trace, names, snrIt, dispIt, ab_mag, snr, stores,
                   output, raised>>

\* ------------------------------------------------------------------------
\* Cell 3: the batch loop
\* ------------------------------------------------------------------------

\* An iterator that stops one element early
HasNextOffByOne(i, seq) == i < Len(seq) - 1

\* Whether an iterator at position i over seq has another element
HasNext(i, seq) == i < Len(seq)

\* A loop that makes the point source once and regenerates its spectrum
ForAbMagReuseSource ==
    /\ pc = "for_ab_mag"
    /\ callStack = <<>>
    /\ IF HasNext(magIt, AB_MAGS)
       THEN /\ magIt' = magIt + 1
            /\ ab_mag' = AB_MAGS[magIt + 1]
            /\ pc' = IF MySource = Null THEN "PointSource" ELSE "generate_uniform"
            /\ UNCHANGED dispIt
       ELSE /\ pc' = "for_snr_display"
            /\ dispIt' = 0
            /\ UNCHANGED <<magIt, ab_mag>>
    /\ UNCHANGED <<callStack, trace, heap, names, tables, snrIt, snr, stores,
                   output, raised>>

\* for ab_mag in AB_MAGS:
ForAbMag ==
    /\ pc = "for_ab_mag"
    /\ callStack = <<>>
    /\ IF HasNext(magIt, AB_MAGS)
       THEN /\ magIt' = magIt + 1
            /\ ab_mag' = AB_MAGS[magIt + 1]
            /\ pc' = "PointSource"
            /\ UNCHANGED dispIt
       ELSE /\ pc' = "for_snr_display"
            /\ dispIt' = 0
            /\ UNCHANGED <<magIt, ab_mag>>
    /\ UNCHANGED <<callStack, trace, heap, names, tables, snrIt, snr, stores,
                   output, raised>>

\* MySource = PointSource()
CallPointSource ==
    /\ Invoke("PointSource", Null, <<>>)
    /\ UNCHANGED <<heap, names, tables, loops, stores, output, raised>>

RetPointSource ==
    /\ Returns("PointSource")
    /\ heap' = Append(heap, [cls |-> "PointSource", spectrum |-> None])
    /\ MySource' = Len(heap) + 1
    /\ UNCHANGED <<MyTelescope, MyBackground, MyPhot, tables, loops, stores,
                   output, raised>>

\* MySource.generate_uniform(wavelengths=wavelengths, value=ab_mag, unit="ABmag")
CallGenerateUniform ==
    /\ Invoke("generate_uniform", MySource,
              [wavelengths |-> wavelengths, value |-> ab_mag, unit |-> "ABmag"])
    /\ UNCHANGED <<heap, names, tables, loops, stores, output, raised>>

RetGenerateUniform ==
    /\ Returns("generate_uniform")
    /\ LET f == callStack[Len(callStack)]
       IN heap' = [heap EXCEPT ![f.self].spectrum = f.args]
    /\ UNCHANGED <<names, tables, loops, stores, output, raised>>

\* The source and the background handed over in each other's place
PhotometryArgsSwapped(tel, src, bg) == [TelescopeObj |-> tel, SourceObj |-> bg,
                                        BackgroundObj |-> src]

\* The arguments of Photometry(MyTelescope, MySource, MyBackground)
PhotometryArgs(tel, src, bg) == [TelescopeObj |-> tel, SourceObj |-> src,
                                 BackgroundObj |-> bg]

\* MyPhot = Photometry(MyTelescope, MySource, MyBackground)
CallPhotometry ==
    /\ Invoke("Photometry", Null,
              PhotometryArgs(MyTelescope, MySource, MyBackground))
    /\ UNCHANGED <<heap, names, tables, loops, stores, output, raised>>

RetPhotometry ==
    /\ Returns("Photometry")
    /\ LET f == callStack[Len(callStack)]
       IN heap' = Append(heap, [cls |-> "Photometry",
                                TelescopeObj |-> f.args.TelescopeObj,
                                SourceObj |-> f.args.SourceObj,
                                BackgroundObj |-> f.args.BackgroundObj,
                                aperture |-> None])
    /\ MyPhot' = Len(heap) + 1
    /\ UNCHANGED <<MyTelescope, MyBackground, MySource, tables, loops, stores,
                   output, raised>>

\* MyPhot.use_optimal_aperture(quiet=True)
CallUseOptimalAperture ==
    /\ Invoke("use_optimal_aperture", MyPhot, [quiet |-> TRUE])
    /\ UNCHANGED <<heap, names, tables, loops, stores, output, raised>>

\* On return the inner for statement is reached and makes a new iterator
RetUseOptimalAperture ==
    /\ Returns("use_optimal_aperture")
    /\ LET f == callStack[Len(callStack)]
       IN heap' = [heap EXCEPT ![f.self].aperture = [kind |-> "optimal"]]
    /\ snrIt' = 0
    /\ UNCHANGED <<names, tables, magIt, dispIt, ab_mag, snr, stores, output,
                   raised>>

\* for snr in TARGET_SNRS:
ForSnr ==
    /\ pc = "for_snr"
    /\ callStack = <<>>
    /\ IF HasNext(snrIt, TARGET_SNRS)
       THEN /\ snrIt' = snrIt + 1
            /\ snr' = TARGET_SNRS[snrIt + 1]
            /\ pc' = "calc_snr_or_t"
       ELSE /\ pc' = "for_ab_mag"
            /\ UNCHANGED <<snrIt, snr>>
    /\ UNCHANGED <<callStack, trace, heap, names, tables, magIt, dispIt, ab_mag,
                   stores, output, raised>>

\* The target passed as the integration time
CalcArgsTime(s) == [t |-> s, reddening |-> REDDENING, quiet |-> TRUE]

\* The keyword arguments of MyPhot.calc_snr_or_t(snr=snr, reddening=REDDENING,
\* quiet=True): no t is passed
CalcArgs(s) == [snr |-> s, reddening |-> REDDENING, quiet |-> TRUE]

\* What calc_snr_or_t returns: a dictionary passband -> quantity, each
\* quantity a term over the Photometry object's state and the arguments
LibCalcSnrOrT(h, phot, args) ==
    LET Quantity == [pb \in Range(PASSBANDS) |->
            [passband |-> pb,
             quantity |-> IF "t" \in DOMAIN args THEN "snr" ELSE "t",
             snr |-> IF "snr" \in DOMAIN args THEN args.snr ELSE Null,
             reddening |-> args.reddening,
             value |-> h[h[phot].SourceObj].spectrum.value,
             unit |-> h[h[phot].SourceObj].spectrum.unit,
             aperture |-> h[phot].aperture,
             telescope |-> h[phot].TelescopeObj,
             background |-> h[phot].BackgroundObj,
             decimals |-> None]]
    IN DictFromSeq(PASSBANDS, Quantity)

\* times_to_reach_snrs[snr][ab_mag] = MyPhot.calc_snr_or_t(...): the call
CallCalcSnrOrT ==
    /\ Invoke("calc_snr_or_t", MyPhot, CalcArgs(snr))
    /\ UNCHANGED <<heap, names, tables, loops, stores, output, raised>>

\* Every result stored in the dictionary of the first target S/N
StoreTargetFirstSnr == [dict |-> times_to_reach_snrs.val[TARGET_SNRS[1]],
                        key |-> ab_mag]

\* The dictionary and key the returned value is stored under
StoreTarget == [dict |-> times_to_reach_snrs.val[snr], key |-> ab_mag]

\* ... and the item assignment once the call has returned
RetCalcSnrOrT ==
    /\ Returns("calc_snr_or_t")
    /\ LET f == callStack[Len(callStack)]
           result == LibCalcSnrOrT(heap, f.self, f.args)
           tgt == StoreTarget
       IN /\ heap' = [heap EXCEPT ![tgt.dict].d = DictSetItem(@, tgt.key, result)]
          /\ stores' = Append(stores, [dict |-> tgt.dict, key |-> tgt.key,
                                       value |-> result])
    /\ UNCHANGED <<names, tables, loops, output, raised>>

\* ------------------------------------------------------------------------
\* Cell 4: display
\* ------------------------------------------------------------------------

\* f"Times (s) required to reach S/N = {snr}"
Heading(s) == [text |-> "Times (s) required to reach S/N = ", snr |-> s]

\* pd.DataFrame(d) of a dictionary of dictionaries: one column per key of
\* d, one row per key of the inner dictionaries
pd_DataFrame(d) ==
    LET idx == IF d.keys = <<>> THEN <<>> ELSE d.val[d.keys[1]].keys
    IN [index |-> idx,
        columns |-> d.keys,
        at |-> [rc \in Range(idx) \X Range(d.keys) |-> d.val[rc[2]].val[rc[1]]]]

\* df.round(n)
df_round(df, n) ==
    [df EXCEPT !.at = [rc \in DOMAIN df.at |-> [df.at[rc] EXCEPT !.decimals = n]]]

\* df.T
df_T(df) ==
    [index |-> df.columns,
     columns |-> df.index,
     at |-> [rc \in Range(df.columns) \X Range(df.index) |-> df.at[<<rc[2], rc[1]>>]]]

\* The display options without the option_context: long frames are cut
DisplayOptionsDefault == [max_rows |-> [limit |-> 60, min_rows |-> 10],
                          max_columns |-> [limit |-> 20]]

\* pd.option_context("display.max_rows", None, "display.max_columns", None)
DisplayOptions == [max_rows |-> None, max_columns |-> None]

\* The rows of a frame that are shown under the display options: all of
\* them without a row limit, else the first and last rows only
ShownRows(df, opts) ==
    IF opts.max_rows = None \/ Len(df.index) <= opts.max_rows.limit
    THEN df.index
    ELSE SubSeq(df.index, 1, opts.max_rows.min_rows \div 2)
           \o SubSeq(df.index, Len(df.index) - opts.max_rows.min_rows \div 2 + 1,
                     Len(df.index))

\* for snr in TARGET_SNRS:
ForSnrDisplay ==
    /\ pc = "for_snr_display"
    /\ callStack = <<>>
    /\ IF HasNext(dispIt, TARGET_SNRS)
       THEN /\ dispIt' = dispIt + 1
            /\ snr' = TARGET_SNRS[dispIt + 1]
            /\ pc' = "print"
       ELSE /\ pc' = "done"
            /\ UNCHANGED <<dispIt, snr>>
    /\ UNCHANGED <<callStack, trace, heap, names, tables, magIt, snrIt, ab_mag,
                   stores, output, raised>>

\* print(f"Times (s) required to reach S/N = {snr}")
CallPrint ==
    /\ Invoke("print", Null, Heading(snr))
    /\ UNCHANGED <<heap, names, tables, loops, stores, output, raised>>

RetPrint ==
    /\ Returns("print")
    /\ LET f == callStack[Len(callStack)]
       IN output' = Append(output, [output_type |-> "stream", snr |-> snr,
                                    text |-> f.args])
    /\ UNCHANGED <<heap, names, tables, loops, stores, raised>>

\* The table handed to display
DisplayedFrame(h, ref) == df_T(df_round(pd_DataFrame(h[ref].d), 2))

\* with pd.option_context(...):
\*     display(pd.DataFrame(times_to_reach_snrs[snr]).round(2).T)
CallDisplay ==
    /\ Invoke("display", Null,
              [frame |-> DisplayedFrame(heap, times_to_reach_snrs.val[snr]),
               options |-> DisplayOptions])
    /\ UNCHANGED <<heap, names, tables, loops, stores, output, raised>>

RetDisplay ==
    /\ Returns("display")
    /\ LET f == callStack[Len(callStack)]
       IN output' = Append(output,
                           [output_type |-> "display_data",
                            snr |-> snr,
                            rows |-> ShownRows(f.args.frame, f.args.options),
                            columns |-> f.args.frame.columns,
                            at |-> f.args.frame.at])
    /\ UNCHANGED <<heap, names, tables, loops, stores, raised>>

Next ==
    \/ CallTelescope
    \/ RetTelescope
    \/ CallBackground
    \/ RetBackground
    \/ CallAddGeocoronalEmission
    \/ RetAddGeocoronalEmission
    \/ SetupTables
    \/ ForAbMag
    \/ CallPointSource
    \/ RetPointSource
    \/ CallGenerateUniform
    \/ RetGenerateUniform
    \/ CallPhotometry
    \/ RetPhotometry
    \/ CallUseOptimalAperture
    \/ RetUseOptimalAperture
    \/ ForSnr
    \/ CallCalcSnrOrT
    \/ RetCalcSnrOrT
    \/ ForSnrDisplay
    \/ CallPrint
    \/ RetPrint
    \/ CallDisplay
    \/ RetDisplay
    \/ Raise

Spec == Init /\ [][Next]_vars

\* ------------------------------------------------------------------------
\* Properties
\* ------------------------------------------------------------------------

\* times_to_reach_snrs[s], the dictionary object
SnrDict(s) == heap[times_to_reach_snrs.val[s]].d

\* The batch cell (cell 3) has run to completion
BatchDone ==
    \/ pc \in {"for_snr_display", "print", "display", "done"}
    \/ pc = "error" /\ raised \in {"print", "display"}

\* The objects of a class
ObjectsOf(cls) == {r \in DOMAIN heap : heap[r].cls = cls}

\* The calls made so far at a site
CallsAt(site) == SelectSeq(trace, LAMBDA f : f.site = site)

\* C1: once the batch cell has run to completion, the table has exactly the
\* keys TARGET_SNRS x AB_MAGS and no entry is still None.
C1_TableComplete ==
    BatchDone =>
        /\ times_to_reach_snrs.keys = TARGET_SNRS
        /\ \A s \in Range(TARGET_SNRS) :
              /\ SnrDict(s).keys = AB_MAGS
              /\ DOMAIN SnrDict(s).val = Range(AB_MAGS)
              /\ \A m \in Range(AB_MAGS) : SnrDict(s).val[m] # None

C1_Witness ==
    /\ pc = "done"
    /\ \A s \in Range(TARGET_SNRS) : \A m \in Range(AB_MAGS) :
          SnrDict(s).val[m] # None

\* C2: there is one Telescope and one Background object, made before the
\* loop; every Photometry object is built from them, the names stay bound to
\* them and the loop leaves their configuration as cell 2 set it.
C2_SameTelescopeAndBackground ==
    /\ Cardinality(ObjectsOf("Telescope")) <= 1
    /\ Cardinality(ObjectsOf("Background")) <= 1
    /\ \A p \in ObjectsOf("Photometry") :
          /\ heap[p].TelescopeObj = MyTelescope
          /\ heap[p].BackgroundObj = MyBackground
          /\ heap[MyTelescope] = [cls |-> "Telescope"]
          /\ heap[MyBackground] = [cls |-> "Background", geocoronal |-> <<"avg">>]
    /\ \A i \in DOMAIN trace :
          trace[i].site = "Photometry" =>
              /\ trace[i].args.TelescopeObj = MyTelescope
              /\ trace[i].args.BackgroundObj = MyBackground
              /\ MyTelescope \in ObjectsOf("Telescope")
              /\ MyBackground \in ObjectsOf("Background")

C2_Witness ==
    /\ Cardinality(ObjectsOf("Photometry")) = Len(AB_MAGS)
    /\ pc = "done"

\* C3 as stated: every library-call site is executed at most once in a run.
C3_EverySiteAtMostOnce ==
    \A i, j \in DOMAIN trace : trace[i].site = trace[j].site => i = j

\* C3 as amended: the sites of cell 2 are executed at most once; the loops
\* repeat the per-magnitude sites once per magnitude (70), calc_snr_or_t
\* once per magnitude and target S/N (140) and the display sites once per
\* target S/N (2); a finished run has made exactly that many calls.
C3_SitesRepeatOnlyByTheLoops ==
    /\ \A site \in {"Telescope", "Background", "add_geocoronal_emission"} :
          Len(CallsAt(site)) <= 1
    /\ \A site \in {"PointSource", "generate_uniform", "Photometry",
                    "use_optimal_aperture"} :
          /\ Len(CallsAt(site)) <= 70
          /\ pc = "done" => Len(CallsAt(site)) = 70
    /\ Len(CallsAt("calc_snr_or_t")) <= 140
    /\ \A site \in {"print", "display"} : Len(CallsAt(site)) <= 2
    /\ pc = "done" => Len(trace) = 3 + 4 * 70 + 140 + 2 * 2

C3_Witness ==
    /\ pc = "done"
    /\ Len(CallsAt("PointSource")) = 70
    /\ Len(CallsAt("calc_snr_or_t")) = 140

\* The site of the latest call, "" before the first
LastSite == IF trace = <<>> THEN "" ELSE trace[Len(trace)].site

\* The table entry of the i-th magnitude and the j-th target S/N
Entry(i, j) == SnrDict(TARGET_SNRS[j]).val[AB_MAGS[i]]

\* What must have happened before the call f is made
CallInOrder(f) ==
    CASE f.site = "Telescope" -> trace = <<>>
      [] f.site = "Background" ->
            LastSite = "Telescope" /\ MyTelescope \in ObjectsOf("Telescope")
      [] f.site = "add_geocoronal_emission" ->
            LastSite = "Background" /\ f.self \in ObjectsOf("Background")
      [] f.site = "PointSource" ->
            /\ LastSite \in {"add_geocoronal_emission", "calc_snr_or_t"}
            /\ MyTelescope \in ObjectsOf("Telescope")
            /\ MyBackground \in ObjectsOf("Background")
      [] f.site = "generate_uniform" ->
            /\ LastSite = "PointSource"
            /\ f.self \in ObjectsOf("PointSource")
            /\ heap[f.self].spectrum = None
      [] f.site = "Photometry" ->
            /\ LastSite = "generate_uniform"
            /\ trace[Len(trace)].self = f.args.SourceObj
            /\ f.args.SourceObj \in ObjectsOf("PointSource")
            /\ heap[f.args.SourceObj].spectrum # None
            /\ f.args.TelescopeObj \in ObjectsOf("Telescope")
            /\ f.args.BackgroundObj \in ObjectsOf("Background")
      [] f.site = "use_optimal_aperture" ->
            /\ LastSite = "Photometry"
            /\ f.self \in ObjectsOf("Photometry")
            /\ heap[f.self].SourceObj = MySource
      [] f.site = "calc_snr_or_t" ->
            /\ f.self \in ObjectsOf("Photometry")
            /\ heap[f.self].aperture # None
            /\ LastSite \in {"use_optimal_aperture", "calc_snr_or_t"}
            /\ LastSite = "calc_snr_or_t" => trace[Len(trace)].self = f.self
      [] f.site = "print" ->
            /\ LastSite \in {"calc_snr_or_t", "display"}
            /\ \A i \in DOMAIN AB_MAGS, j \in DOMAIN TARGET_SNRS : Entry(i, j) # None
      [] f.site = "display" ->
            /\ LastSite = "print"
            /\ f.args.frame.index = AB_MAGS
            /\ \A rc \in DOMAIN f.args.frame.at :
                  \E k \in DOMAIN stores :
                      /\ stores[k].key = rc[1]
                      /\ stores[k].dict = times_to_reach_snrs.val[snr]
                      /\ [stores[k].value.val[rc[2]] EXCEPT !.decimals = 2]
                            = f.args.frame.at[rc]

\* C4: the calls are made in the stated order: telescope and background
\* first, then per source its construction, its spectrum, the Photometry
\* object and the calculation on an existing Photometry object; a table is
\* displayed only after the batch loop has computed every cell of it.
C4_CallsInOrder ==
    [][/\ Len(trace') > Len(trace) =>
             /\ trace' = Append(trace, trace'[Len(trace')])
             /\ CallInOrder(trace'[Len(trace')])
       /\ Len(output') > Len(output) =>
             /\ BatchDone
             /\ Len(stores) = Len(AB_MAGS) * Len(TARGET_SNRS)]_vars

C4_Witness ==
    /\ pc = "done"
    /\ Len(output) = 2 * Len(TARGET_SNRS)
    /\ LastSite = "display"

\* C5: at most one library call is in progress, it is the call of the
\* statement the run is at, a call starts only when none is in progress,
\* and the objects and tables change only when a call returns or in the
\* call-free setup step.
C5_OneCallAtATime ==
    [][/\ Len(callStack) <= 1
       /\ Len(callStack') <= 1
       /\ callStack # <<>> => callStack[1].site = pc
       /\ Len(trace') > Len(trace) => callStack = <<>> /\ Len(callStack') = 1
       /\ <<heap, names, tables>>' # <<heap, names, tables>> =>
             \/ Len(callStack) = 1 /\ callStack' = <<>>
             \/ pc = "setup" /\ callStack = <<>>]_vars

C5_Witness ==
    /\ Len(callStack) = 1
    /\ callStack[1].site = "calc_snr_or_t"
    /\ Len(stores) > 0

\* The sites of the batch loop
LoopSites == {"PointSource", "generate_uniform", "Photometry",
              "use_optimal_aperture", "calc_snr_or_t"}

\* The i-th magnitude and j-th target S/N were stored before the run stopped
StoredBeforeError(i, j) ==
    \/ i < magIt
    \/ i = magIt /\ raised = "calc_snr_or_t" /\ j < snrIt

\* C6: an exception of a library call is not caught: the run stops at that
\* point and takes no further step, nothing already stored changes, and the
\* entry being computed and all later entries are still None.
C6_ErrorsPropagate ==
    /\ [](pc = "error" /\ raised \in LoopSites =>
             /\ \A i \in DOMAIN AB_MAGS, j \in DOMAIN TARGET_SNRS :
                   (Entry(i, j) # None) <=> StoredBeforeError(i, j)
             /\ raised = "calc_snr_or_t" => Entry(magIt, snrIt) = None)
    /\ [][/\ pc # "error"
          /\ (raised' # raised \/ pc' = "error") =>
                /\ callStack # <<>>
                /\ raised' = callStack[Len(callStack)].site
                /\ pc' = "error"
                /\ UNCHANGED <<heap, names, tables, loops, stores, output>>]_vars

C6_Witness ==
    /\ pc = "error"
    /\ raised = "calc_snr_or_t"
    /\ magIt = 3
    /\ snrIt = 2
    /\ Entry(3, 1) # None
    /\ Entry(3, 2) = None

\* The magnitude and target S/N a calc_snr_or_t call computes for
PairOf(f) == <<heap[heap[f.self].SourceObj].spectrum.value, f.args.snr>>

\* C7: calc_snr_or_t is never called twice for the same magnitude and
\* target S/N and no entry is assigned twice; once the batch loop is done
\* there has been exactly one call and one assignment per pair.
C7_NoRetry ==
    LET calls == CallsAt("calc_snr_or_t")
        pairs == {PairOf(calls[i]) : i \in DOMAIN calls}
        slots == {<<stores[i].dict, stores[i].key>> : i \in DOMAIN stores}
    IN /\ Cardinality(pairs) = Len(calls)
       /\ Cardinality(slots) = Len(stores)
       /\ Len(stores) <= Len(calls)
       /\ BatchDone =>
             /\ Len(calls) = Len(AB_MAGS) * Len(TARGET_SNRS)
             /\ Len(stores) = Len(AB_MAGS) * Len(TARGET_SNRS)
             /\ pairs = Range(AB_MAGS) \X Range(TARGET_SNRS)

C7_Witness ==
    /\ pc = "done"
    /\ Len(CallsAt("calc_snr_or_t")) = 140
    /\ Len(stores) = 140

\* A value calc_snr_or_t returns for a target S/N of 5 or 10, reddening
\* 0.09 and no time: integration times
IsTimeForTargetSnr(v) ==
    \A pb \in DOMAIN v.val :
        /\ v.val[pb].quantity = "t"
        /\ v.val[pb].snr \in {5, 10}
        /\ v.val[pb].reddening = 9

\* C8: every calc_snr_or_t call passes snr = 5 or 10, reddening = 0.09 and
\* no t, and every value in the table is what such a call returned.
C8_SnrGivenTimeReturned ==
    /\ \A i \in DOMAIN trace :
          trace[i].site = "calc_snr_or_t" =>
              /\ "snr" \in DOMAIN trace[i].args
              /\ "t" \notin DOMAIN trace[i].args
              /\ trace[i].args.snr \in Range(TARGET_SNRS)
              /\ trace[i].args.snr \in {5, 10}
              /\ trace[i].args.reddening = 9
    /\ \A k \in DOMAIN stores : IsTimeForTargetSnr(stores[k].value)
    /\ times_to_one_snr # Null =>
          \A i \in DOMAIN AB_MAGS, j \in DOMAIN TARGET_SNRS :
              Entry(i, j) # None => IsTimeForTargetSnr(Entry(i, j))

C8_Witness ==
    /\ pc = "done"
    /\ \A i \in DOMAIN AB_MAGS, j \in DOMAIN TARGET_SNRS :
          Entry(i, j) # None /\ IsTimeForTargetSnr(Entry(i, j))

\* C9: every Photometry object is built from one PointSource, no
\* PointSource is handed to two Photometry objects, and once the batch loop
\* is done every PointSource has been handed to one.
C9_OneSourcePerPhotometry ==
    /\ \A p \in ObjectsOf("Photometry") :
          heap[p].SourceObj \in ObjectsOf("PointSource")
    /\ \A p, q \in ObjectsOf("Photometry") :
          heap[p].SourceObj = heap[q].SourceObj => p = q
    /\ BatchDone =>
          \A src \in ObjectsOf("PointSource") :
              \E p \in ObjectsOf("Photometry") : heap[p].SourceObj = src

C9_Witness ==
    /\ pc = "done"
    /\ Cardinality(ObjectsOf("PointSource")) = 70
    /\ Cardinality(ObjectsOf("Photometry")) = 70

\* C10: the output is, for S/N = 5 and then S/N = 10, a heading followed
\* by one table with the 70 rows 22.0, 22.1, ..., 28.9 in increasing order
\* and the columns uv, u, g; a finished run has shown both tables.
C10_DisplayedTables ==
    /\ Len(output) <= 4
    /\ pc = "done" => Len(output) = 4
    /\ \A n \in DOMAIN output :
          /\ output[n].snr = <<5, 5, 10, 10>>[n]
          /\ n % 2 = 1 =>
                /\ output[n].output_type = "stream"
                /\ output[n].text = Heading(output[n].snr)
          /\ n % 2 = 0 =>
                /\ output[n].output_type = "display_data"
                /\ output[n].rows = [k \in 1..70 |-> 219 + k]
                /\ output[n].rows[70] = 289
                /\ output[n].columns = <<"uv", "u", "g">>
                /\ DOMAIN output[n].at = Range(output[n].rows) \X {"uv", "u", "g"}

C10_Witness ==
    /\ pc = "done"
    /\ Len(output) = 4
    /\ output[4].output_type = "display_data"
    /\ Len(output[4].rows) = 70

\* The dictionary objects the results table refers to, one per target S/N
SnrDictRefs == {times_to_reach_snrs.val[s] : s \in Range(times_to_reach_snrs.keys)}

\* C11: each target S/N has its own dictionary object, none of them the
\* template; an item assignment changes the one dictionary it is made into
\* and leaves the dictionaries of the other target S/N values and the
\* template as they were, and every value of the template stays None.
C11_SnrDictsIndependent ==
    /\ [](times_to_one_snr # Null =>
             /\ Cardinality(SnrDictRefs) = Len(TARGET_SNRS)
             /\ times_to_one_snr \notin SnrDictRefs
             /\ \A m \in Range(AB_MAGS) : heap[times_to_one_snr].d.val[m] = None)
    /\ [][Len(stores') > Len(stores) =>
             LET st == stores'[Len(stores')]
             IN /\ st.dict = times_to_reach_snrs.val[snr]
                /\ heap'[st.dict].d.val[st.key] = st.value
                /\ \A r \in (SnrDictRefs \cup {times_to_one_snr}) \ {st.dict} :
                      heap'[r] = heap[r]
                /\ \A m \in Range(AB_MAGS) \ {st.key} :
                      heap'[st.dict].d.val[m] = heap[st.dict].d.val[m]]_vars

C11_Witness ==
    /\ Len(stores) = 3
    /\ Entry(1, 1) # None
    /\ Entry(1, 2) # None
    /\ Entry(1, 1) # Entry(1, 2)
    /\ Entry(2, 1) # None
    /\ Entry(2, 2) = None
    /\ heap[times_to_one_snr].d.val[AB_MAGS[1]] = None

\* The value given to generate_uniform for the source a Photometry object
\* was built from
GeneratedValue(phot) ==
    LET gen == SelectSeq(trace, LAMBDA f : /\ f.site = "generate_uniform"
                                           /\ f.self = heap[phot].SourceObj)
    IN gen[Len(gen)].args.value

\* The k-th assignment stores, under the inputs of the k-th calc_snr_or_t
\* call, what that call returned
StoredUnderItsInputs(k) ==
    LET call == CallsAt("calc_snr_or_t")[k]
    IN /\ stores[k].value = LibCalcSnrOrT(heap, call.self, call.args)
       /\ stores[k].key = GeneratedValue(call.self)
       /\ stores[k].dict = times_to_reach_snrs.val[call.args.snr]
       /\ \A pb \in Range(PASSBANDS) :
             /\ stores[k].value.val[pb].value = stores[k].key
             /\ stores[k].value.val[pb].snr = call.args.snr

\* C12: every entry that has been assigned holds the value calc_snr_or_t
\* returned for its own target S/N on the Photometry object of the source
\* generated with its own magnitude; after the batch loop that is every
\* entry of the table.
C12_StoredUnderInputs ==
    /\ Len(stores) <= Len(CallsAt("calc_snr_or_t"))
    /\ \A k \in DOMAIN stores : StoredUnderItsInputs(k)
    /\ times_to_one_snr # Null =>
          \A i \in DOMAIN AB_MAGS, j \in DOMAIN TARGET_SNRS :
              /\ BatchDone => Entry(i, j) # None
              /\ Entry(i, j) # None =>
                    /\ \A pb \in Range(PASSBANDS) :
                          /\ Entry(i, j).val[pb].value = AB_MAGS[i]
                          /\ Entry(i, j).val[pb].snr = TARGET_SNRS[j]
                    /\ \E k \in DOMAIN stores :
                          /\ stores[k].key = AB_MAGS[i]
                          /\ stores[k].dict = times_to_reach_snrs.val[TARGET_SNRS[j]]
                          /\ stores[k].value = Entry(i, j)

C12_Witness ==
    /\ pc = "done"
    /\ Len(stores) = 140
    /\ \A pb \in Range(PASSBANDS) :
          /\ Entry(70, 2).val[pb].value = 289
          /\ Entry(70, 2).val[pb].snr = 10
          /\ Entry(1, 1).val[pb].value = 220
          /\ Entry(1, 1).val[pb].snr = 5

\* The object of a class created last, Null when there is none
LatestOf(cls) ==
    IF ObjectsOf(cls) = {} THEN Null
    ELSE CHOOSE r \in ObjectsOf(cls) : \A q \in ObjectsOf(cls) : q <= r

\* The calls made so far at a site on an object
CallsOn(site, obj) ==
    SelectSeq(trace, LAMBDA f : f.site = site /\ f.self = obj)

\* What holds of the objects a call of the batch loop is made on
CallOnObjectsOfThisMagnitude(f) ==
    CASE f.site = "generate_uniform" ->
            /\ f.self = LatestOf("PointSource")
            /\ Cardinality(ObjectsOf("PointSource")) = magIt
            /\ CallsOn("generate_uniform", f.self) = <<>>
      [] f.site = "Photometry" ->
            /\ f.args.SourceObj = LatestOf("PointSource")
            /\ Cardinality(ObjectsOf("Photometry")) = magIt - 1
            /\ \A p \in ObjectsOf("Photometry") :
                  heap[p].SourceObj # f.args.SourceObj
      [] f.site = "use_optimal_aperture" ->
            /\ f.self = LatestOf("Photometry")
            /\ Cardinality(ObjectsOf("Photometry")) = magIt
            /\ CallsOn("use_optimal_aperture", f.self) = <<>>
            /\ CallsOn("calc_snr_or_t", f.self) = <<>>
      [] f.site = "calc_snr_or_t" ->
            /\ f.self = LatestOf("Photometry")
            /\ heap[f.self].SourceObj = LatestOf("PointSource")
            /\ Cardinality(ObjectsOf("PointSource")) = magIt
            /\ Cardinality(ObjectsOf("Photometry")) = magIt
            /\ Len(CallsOn("use_optimal_aperture", f.self)) = 1
            /\ heap[f.self].aperture = [kind |-> "optimal"]
            /\ GeneratedValue(f.self) = ab_mag
            /\ Len(CallsOn("calc_snr_or_t", f.self)) = snrIt - 1
            /\ \A c \in Range(CallsAt("calc_snr_or_t")) :
                  (GeneratedValue(c.self) = ab_mag) <=> (c.self = f.self)
      [] OTHER -> TRUE

\* C13: every magnitude gets a new PointSource and a new Photometry
\* object; use_optimal_aperture is called exactly once on that Photometry
\* object, before any calc_snr_or_t call on it; all the calc_snr_or_t
\* calls of the magnitude are made on it, one per target S/N, and no call
\* is made on an object of an earlier magnitude.
C13_FreshObjectsPerMagnitude ==
    /\ [](BatchDone =>
             /\ Cardinality(ObjectsOf("PointSource")) = Len(AB_MAGS)
             /\ Cardinality(ObjectsOf("Photometry")) = Len(AB_MAGS)
             /\ \A p \in ObjectsOf("Photometry") :
                   /\ Len(CallsOn("use_optimal_aperture", p)) = 1
                   /\ {c.args.snr : c \in Range(CallsOn("calc_snr_or_t", p))}
                         = Range(TARGET_SNRS))
    /\ [][Len(trace') > Len(trace) =>
             CallOnObjectsOfThisMagnitude(trace'[Len(trace')])]_vars

C13_Witness ==
    /\ magIt = 2
    /\ snrIt = 2
    /\ pc = "calc_snr_or_t"
    /\ callStack # <<>>
    /\ callStack[1].self = MyPhot
    /\ Len(CallsOn("calc_snr_or_t", MyPhot)) = 2
    /\ Len(CallsOn("use_optimal_aperture", MyPhot)) = 1
    /\ Cardinality(ObjectsOf("Photometry")) = 2

=============================================================================
